---- MODULE Spec2Model ----
(***************************************************************************)
(* Model of bravado/cli/generate.py: the generator of a SwaggerClient      *)
(* subclass.  Three specifications share the variables:                    *)
(*   SpecSelector   _get_happy_path_response_spec on bounded mappings      *)
(*   SpecSignature  _generate_operation_signature on bounded parameters    *)
(*   Spec           generate_client, step by step, on bounded Specs        *)
(* Python strings are TLA+ strings; their order is the order of their code *)
(* points, so every string that is compared has its code points listed.    *)
(***************************************************************************)
EXTENDS Integers, Sequences, FiniteSets, TLC

VARIABLES
    responses_spec,   \* argument of _get_happy_path_response_spec
    sel,              \* its outcome: response_spec, deref calls, keys read
    sel_pc,
    op_params,        \* operation.params of the signature under construction
    sig,              \* outcome of _generate_operation_signature
    sig_pc,
    service_name,     \* args.name
    swagger_spec,     \* swagger_spec.resources, in the mapping's iteration order
    file_lines,       \* generate_client's local list
    stdout,           \* what print() has written in this run
    error,            \* exception that ended this run, "none" otherwise
    pc,               \* position inside generate_client
    res_i,            \* index of the loop of lines 71-72 over the sorted resources
    prev_stdout,      \* stdout of the previous run over the same Spec
    reordered         \* did this run get another iteration order than the previous

vars == <<responses_spec, sel, sel_pc, op_params, sig, sig_pc, service_name,
          swagger_spec, file_lines, stdout, error, pc, res_i, prev_stdout,
          reordered>>

selVars == <<responses_spec, sel, sel_pc>>
sigVars == <<op_params, sig, sig_pc>>
genVars == <<service_name, swagger_spec, file_lines, stdout, error, pc, res_i,
             prev_stdout, reordered>>

----------------------------------------------------------------------------
(* Bounds of the model *)

MaxParams == 2        \* parameters of one operation (SpecSignature)
MaxResources == 2     \* resources of one Spec
MaxOps == 3           \* operations of one Spec, over all its resources

----------------------------------------------------------------------------
(* Python str: comparison and join *)

\* Code points of every string the program compares.
CodePoints ==
    [s \in {"200", "201", "300", "400", "default", "a", "b", "B", "ab",
            "get", "add", "Get"} |->
        CASE s = "200" -> <<50, 48, 48>>
          [] s = "201" -> <<50, 48, 49>>
          [] s = "300" -> <<51, 48, 48>>
          [] s = "400" -> <<52, 48, 48>>
          [] s = "default" -> <<100, 101, 102, 97, 117, 108, 116>>
          [] s = "a" -> <<97>>
          [] s = "b" -> <<98>>
          [] s = "B" -> <<66>>
          [] s = "ab" -> <<97, 98>>
          [] s = "get" -> <<103, 101, 116>>
          [] s = "add" -> <<97, 100, 100>>
          [] s = "Get" -> <<71, 101, 116>>]

RECURSIVE LexLess(_, _)
LexLess(u, v) ==
    IF v = <<>> THEN FALSE
    ELSE IF u = <<>> THEN TRUE
    ELSE IF Head(u) # Head(v) THEN Head(u) < Head(v)
    ELSE LexLess(Tail(u), Tail(v))

\* s < t on Python strings
StrLess(s, t) == LexLess(CodePoints[s], CodePoints[t])

RECURSIVE Insert(_, _)
Insert(x, sortedSeq) ==
    IF sortedSeq = <<>> THEN <<x>>
    ELSE IF ~StrLess(Head(sortedSeq).key, x.key) THEN <<x>> \o sortedSeq
    ELSE <<Head(sortedSeq)>> \o Insert(x, Tail(sortedSeq))

\* SortedItems without the sort: the mapping's own iteration order
SortedItemsUnsorted(items) == items

\* sorted() over (key, value) items with pairwise different keys
RECURSIVE SortedItems(_)
SortedItems(items) ==
    IF items = <<>> THEN <<>>
    ELSE Insert(Head(items), SortedItems(Tail(items)))

\* sep.join(strs)
RECURSIVE Join(_, _)
Join(strs, sep) ==
    IF strs = <<>> THEN ""
    ELSE IF Len(strs) = 1 THEN strs[1]
    ELSE strs[1] \o sep \o Join(Tail(strs), sep)

----------------------------------------------------------------------------
(* Response Selector: _get_happy_path_response_spec *)

None == "None"                 \* Python's None: an absent value
EmptyDef == "{}"               \* a response definition with no fields
RefA == "$ref:A"               \* a reference that resolves to definition A
RefEmpty == "$ref:{}"          \* a reference that resolves to an empty definition
Definitions == {"A", "B", EmptyDef, RefA, RefEmpty}
StatusKeys == {"200", "201", "400", "default"}

\* every mapping of some status keys to response definitions
ResponseMappings ==
    UNION {[ks -> Definitions] : ks \in SUBSET StatusKeys}

\* swagger_spec.deref: resolves a reference, returns anything else unchanged
Deref(d) ==
    CASE d = RefA -> "A"
      [] d = RefEmpty -> EmptyDef
      [] OTHER -> d

\* Python truth value of a response definition or None
Truthy(d) == d \notin {None, EmptyDef}

\* dict.get(key), None when the key is missing
Get(m, k) == IF k \in DOMAIN m THEN m[k] ELSE None

SetToSeq(S) ==
    CHOOSE q \in [1..Cardinality(S) -> S] : \A i, j \in 1..Cardinality(S) : i # j => q[i] # q[j]

\* sorted(responses_spec.keys())
SortedKeys(m) ==
    LET items == [i \in 1..Cardinality(DOMAIN m) |-> [key |-> SetToSeq(DOMAIN m)[i]]]
        srt == SortedItems(items)
    IN  [i \in 1..Len(srt) |-> srt[i].key]

\* The outcome of _get_happy_path_response_spec(responses, swagger_spec):
\* the value returned, the arguments deref was called with, the keys read.
GetHappyPathResponseSpec(responses) ==
    LET first == Get(responses, "200")
        status_codes == SortedKeys(responses)
        tryCode == ~Truthy(first) /\ status_codes # <<>>
                   /\ StrLess(status_codes[1], "300")
        second == IF tryCode THEN Deref(responses[status_codes[1]]) ELSE first
        tryDefault == ~Truthy(second)
        third == IF tryDefault THEN Deref(Get(responses, "default")) ELSE second
    IN  [response_spec |-> third,
         derefs |-> (IF tryCode THEN <<responses[status_codes[1]]>> ELSE <<>>)
                    \o (IF tryDefault THEN <<Get(responses, "default")>> ELSE <<>>),
         reads |-> <<"200">>
                   \o (IF tryCode THEN <<status_codes[1]>> ELSE <<>>)
                   \o (IF tryDefault THEN <<"default">> ELSE <<>>)]

NoSel == [response_spec |-> None, derefs |-> <<>>, reads |-> <<>>]

\* one call of the selector on the mapping chosen at start
SelectorCall ==
    /\ sel_pc = "call"
    /\ sel' = GetHappyPathResponseSpec(responses_spec)
    /\ sel_pc' = "done"
    /\ UNCHANGED <<responses_spec, sigVars, genVars>>

----------------------------------------------------------------------------
(* Signature Builder: _generate_operation_signature *)

\* values of a parameter's 'default' key; NoDefault when the key is missing
NoDefault == [kind |-> "missing", int |-> 0, str |-> ""]
IntVal(n) == [kind |-> "int", int |-> n, str |-> ""]
StrVal(t) == [kind |-> "str", int |-> 0, str |-> t]
DefaultValues == {NoDefault, IntVal(5), StrVal("hello")}

\* values of param_spec['type']; NoType when the key is missing
NoType == "<no type>"
ParamTypes == {"string", "integer", NoType}
ParamNames == {"x", "y", "z"}

Params ==
    [name : ParamNames, required : BOOLEAN, default : DefaultValues, type : ParamTypes]

\* operation.params: parameters keyed by name, in the mapping's iteration order
ParamLists ==
    {q \in UNION {[1..n -> Params] : n \in 0..MaxParams} :
        \A i, j \in DOMAIN q : i # j => q[i].name # q[j].name}

\* str.format of a default value
Format(v) ==
    CASE v.kind = "int" -> ToString(v.int)
      [] v.kind = "str" -> v.str
      [] OTHER -> None

\* param.has_default()
HasDefault(param) == param.default.kind # "missing"

\* ParamStr without the quoting of string defaults
ParamStrUnquoted(param) ==
    IF HasDefault(param) THEN param.name \o "=" \o Format(param.default)
    ELSE IF ~param.required THEN param.name \o "=None"
    ELSE param.name

\* param_str when the loop body ends (lines 118-128), for a parameter whose
\* 'type' lookup does not raise
ParamStr(param) ==
    IF HasDefault(param)
    THEN IF param.type = "string"
         THEN param.name \o "=" \o "'" \o Format(param.default) \o "'"
         ELSE param.name \o "=" \o Format(param.default)
    ELSE IF ~param.required THEN param.name \o "=None"
    ELSE param.name

\* does the loop body put the parameter in optional_params (line 119)
IsOptional(param) == HasDefault(param) \/ ~param.required

\* does param_spec['type'] raise for this parameter (line 122)
Raises(param) == HasDefault(param) /\ param.type = NoType

\* the loop of lines 117-132: acc holds params, optional_params and the error
RECURSIVE SignatureLoop(_, _)
SignatureLoop(rest, acc) ==
    IF rest = <<>> \/ acc.err # "none" THEN acc
    ELSE LET param == Head(rest) IN
         IF Raises(param)
         THEN [acc EXCEPT !.err = "KeyError"]
         ELSE IF IsOptional(param)
         THEN SignatureLoop(Tail(rest),
                  [acc EXCEPT !.optional_params = Append(@, ParamStr(param))])
         ELSE SignatureLoop(Tail(rest),
                  [acc EXCEPT !.params = Append(@, ParamStr(param))])

\* SignatureParams with the options parameter appended before the extend
SignatureParamsOptionsEarly(loop) ==
    Append(loop.params, "_request_options=None") \o loop.optional_params

\* the list 'params' when line 137 joins it
SignatureParams(loop) ==
    loop.params \o Append(loop.optional_params, "_request_options=None")

\* _generate_operation_signature(op_name, operation): the error raised or
\* the parameter list and the two lines returned
GenerateOperationSignature(op_name, params) ==
    LET loop == SignatureLoop(params,
                    [params |-> <<"self">>, optional_params |-> <<>>, err |-> "none"])
    IN  IF loop.err # "none"
        THEN [err |-> loop.err, params |-> <<>>, op_lines |-> <<>>]
        ELSE [err |-> "none",
              params |-> SignatureParams(loop),
              op_lines |-> <<"", "    def " \o op_name \o "("
                                 \o Join(SignatureParams(loop), ", ") \o "):">>]

NoSig == [err |-> "none", params |-> <<>>, op_lines |-> <<>>]

\* one call of the builder on the parameters chosen at start
SignatureCall ==
    /\ sig_pc = "call"
    /\ sig' = GenerateOperationSignature("get", op_params)
    /\ sig_pc' = "done"
    /\ UNCHANGED <<op_params, selVars, genVars>>

----------------------------------------------------------------------------
(* The Spec Model handed to generate_client *)

ServiceNames == {"Pet"}
ResourceNames == {"a", "b", "B"}
OperationIds == {"get", "add"}

Param(n, r, d, t) == [name |-> n, required |-> r, default |-> d, type |-> t]

\* parameter declarations of an operation (op_spec['parameters'])
DeclaredXYZ ==
    <<Param("x", TRUE, NoDefault, "integer"),
      Param("y", FALSE, IntVal(5), "integer"),
      Param("z", TRUE, NoDefault, "string")>>
DeclaredTwice ==
    <<Param("id", TRUE, NoDefault, "string"),
      Param("id", FALSE, NoDefault, "integer")>>
DeclaredUntyped ==
    <<Param("q", FALSE, StrVal("hello"), NoType)>>

\* what an operation declares: its parameters and its responses
OperationShapes ==
    { [declared |-> DeclaredXYZ, responses |-> ("200" :> "A" @@ "400" :> "B")],
      [declared |-> DeclaredTwice, responses |-> <<>>],
      [declared |-> DeclaredUntyped, responses |-> ("400" :> "B" @@ "default" :> RefA)] }

\* params[param.name] = param over the declarations: a name declared again
\* replaces the entry and keeps its place (Spec.from_dict, line 54)
RECURSIVE BuildParams(_, _)
BuildParams(declared, params) ==
    IF declared = <<>> THEN params
    ELSE LET param == Head(declared)
             at == {i \in DOMAIN params : params[i].name = param.name}
         IN  IF at = {}
             THEN BuildParams(Tail(declared), Append(params, param))
             ELSE BuildParams(Tail(declared),
                      [i \in DOMAIN params |-> IF i \in at THEN param ELSE params[i]])

Operation(id, shape) ==
    [key |-> id, operation_id |-> id, declared |-> shape.declared,
     params |-> BuildParams(shape.declared, <<>>), responses |-> shape.responses]

Distinct(q) == \A i, j \in DOMAIN q : i # j => q[i].key # q[j].key

\* resource.operations: operations keyed by name, in iteration order
OperationMappings ==
    {q \in UNION {[1..n -> {Operation(id, sh) : id \in OperationIds,
                                                 sh \in OperationShapes}] :
                     n \in 0..Cardinality(OperationIds)} : Distinct(q)}

Resources ==
    {[key |-> n, name |-> n, operations |-> ops] :
        n \in ResourceNames, ops \in OperationMappings}

RECURSIVE CountOperations(_)
CountOperations(resources) ==
    IF resources = <<>> THEN 0
    ELSE Len(Head(resources).operations) + CountOperations(Tail(resources))

\* swagger_spec.resources: resources keyed by name, in iteration order
ResourceMappings ==
    {q \in UNION {[1..n -> Resources] : n \in 0..MaxResources} :
        Distinct(q) /\ CountOperations(q) <= MaxOps}

----------------------------------------------------------------------------
(* Class/Method Emitter *)

\* CLIENT_HEADER.format(service_name=...)
ClientHeader(name) ==
    "# -*- coding: utf-8 -*-\nfrom __future__ import absolute_import\nfrom __future__ import unicode_literals\n\nimport logging\n\nfrom bravado.client import SwaggerClient\nfrom bravado.client import construct_request\nfrom bravado.config import RequestConfig\nfrom bravado.http_client import HttpClient\nfrom bravado.http_future import HttpFuture\nfrom bravado.response import BravadoResponseMetadata\nfrom bravado.warning import warn_for_deprecated_op\n\n\nlog = logging.getLogger(__name__)\n\n\nclass "
    \o name \o "Client(SwaggerClient):\n"

\* _generate_resource_property(resource_name)
GenerateResourceProperty(resource_name) ==
    "\n    @property\n    def " \o resource_name
    \o "(self):\n        return " \o resource_name \o "_Resource(self.swagger_spec)"

ResourceClassLine(name) == "\n\nclass " \o name \o "_Resource():"

InitMethod ==
    "\n    def __init__(self, swagger_spec):\n        self._swagger_spec = swagger_spec"

\* _generate_operation_body(operation, resource_name)
GenerateOperationBody(operation, resource_name) ==
    LET params == [i \in DOMAIN operation.params |->
                      operation.params[i].name \o "=" \o operation.params[i].name]
    IN  <<"        operation = self._swagger_spec.resources['" \o resource_name
          \o "']." \o operation.operation_id
          \o "\n        # TODO: debug logging\n        warn_for_deprecated_op(operation)\n        # Get per-request config\n        request_options = _request_options or {}\n        request_options['http_future_class'] = "
          \o operation.operation_id
          \o "HttpFuture\n        request_config = RequestConfig(request_options, also_return_response_default=False)\n\n        request_params = construct_request(\n            operation, request_options, "
          \o Join(params, ", ")
          \o "\n        )\n\n        http_client = operation.swagger_spec.http_client\n\n        return http_client.request(\n            request_params,\n            operation=operation,\n            request_config=request_config,\n        )">>

HttpFutureLine(operation_id) == "class " \o operation_id \o "HttpFuture(HttpFuture):"

\* _generate_operation_http_future(operation, response_spec)
GenerateOperationHttpFuture(operation, response_spec) ==
    <<"", "", HttpFutureLine(operation.operation_id), "    pass">>

\* the loop of lines 99-101 over the sorted operations
RECURSIVE MethodsLoop(_, _, _)
MethodsLoop(ops, resource_name, acc) ==
    IF ops = <<>> \/ acc.err # "none" THEN acc
    ELSE LET signature == GenerateOperationSignature(Head(ops).key, Head(ops).params)
         IN  IF signature.err # "none"
             THEN [acc EXCEPT !.err = signature.err]
             ELSE MethodsLoop(Tail(ops), resource_name,
                      [acc EXCEPT !.lines = @ \o signature.op_lines
                                      \o GenerateOperationBody(Head(ops), resource_name)])

\* HttpFuturesLoop that emits no wrapper when the selector finds no response
RECURSIVE HttpFuturesLoopSkipAbsent(_, _)
HttpFuturesLoopSkipAbsent(ops, lines) ==
    IF ops = <<>> THEN lines
    ELSE LET response_spec == GetHappyPathResponseSpec(Head(ops).responses).response_spec
         IN  HttpFuturesLoopSkipAbsent(Tail(ops),
                 IF response_spec = None THEN lines
                 ELSE lines \o GenerateOperationHttpFuture(Head(ops), response_spec))

\* the loop of lines 103-108 over the sorted operations
RECURSIVE HttpFuturesLoop(_, _)
HttpFuturesLoop(ops, lines) ==
    IF ops = <<>> THEN lines
    ELSE LET response_spec == GetHappyPathResponseSpec(Head(ops).responses).response_spec
         IN  HttpFuturesLoop(Tail(ops),
                 lines \o GenerateOperationHttpFuture(Head(ops), response_spec))

\* GenerateResourceClass whose second loop does not sort the operations
GenerateResourceClassFuturesUnsorted(resource) ==
    LET ops == SortedItems(resource.operations)
        methods == MethodsLoop(ops, resource.name,
                       [err |-> "none",
                        lines |-> <<ResourceClassLine(resource.name), InitMethod>>])
    IN  IF methods.err # "none"
        THEN [err |-> methods.err, lines |-> <<>>]
        ELSE [err |-> "none",
              lines |-> HttpFuturesLoop(resource.operations, methods.lines)]

\* _generate_resource_class(resource): the error raised or the lines returned
GenerateResourceClass(resource) ==
    LET ops == SortedItems(resource.operations)
        methods == MethodsLoop(ops, resource.name,
                       [err |-> "none",
                        lines |-> <<ResourceClassLine(resource.name), InitMethod>>])
    IN  IF methods.err # "none"
        THEN [err |-> methods.err, lines |-> <<>>]
        ELSE [err |-> "none", lines |-> HttpFuturesLoop(ops, methods.lines)]

----------------------------------------------------------------------------
(* generate_client, one step per statement or loop iteration *)

NoRun == <<"no previous run">>

\* lines 61-64
GenerateClientHeader ==
    /\ pc = "header"
    /\ file_lines' = Append(file_lines, ClientHeader(service_name))
    /\ pc' = "properties"
    /\ UNCHANGED <<service_name, swagger_spec, stdout, error, res_i, prev_stdout,
                   reordered, selVars, sigVars>>

\* GenerateClientProperties over the unsorted keys
GenerateClientPropertiesUnsorted ==
    /\ pc = "properties"
    /\ file_lines' = file_lines
           \o [i \in 1..Len(swagger_spec) |->
                  GenerateResourceProperty(swagger_spec[i].key)]
    /\ pc' = "classes"
    /\ res_i' = 1
    /\ UNCHANGED <<service_name, swagger_spec, stdout, error, prev_stdout, reordered,
                   selVars, sigVars>>

\* lines 67-68
GenerateClientProperties ==
    /\ pc = "properties"
    /\ LET names == SortedItems(swagger_spec)
       IN  file_lines' = file_lines
               \o [i \in 1..Len(names) |-> GenerateResourceProperty(names[i].key)]
    /\ pc' = "classes"
    /\ res_i' = 1
    /\ UNCHANGED <<service_name, swagger_spec, stdout, error, prev_stdout, reordered,
                   selVars, sigVars>>

\* GenerateClientClass that prints each resource's lines as it builds them
GenerateClientClassStreaming ==
    /\ pc = "classes"
    /\ res_i <= Len(swagger_spec)
    /\ LET out == GenerateResourceClass(SortedItems(swagger_spec)[res_i])
       IN  IF out.err # "none"
           THEN /\ error' = out.err
                /\ pc' = "failed"
                /\ UNCHANGED <<file_lines, res_i, stdout>>
           ELSE /\ file_lines' = file_lines \o out.lines
                /\ stdout' = Append(stdout, Join(out.lines, "\n") \o "\n")
                /\ res_i' = res_i + 1
                /\ UNCHANGED <<error, pc>>
    /\ UNCHANGED <<service_name, swagger_spec, prev_stdout, reordered, selVars, sigVars>>

\* one iteration of lines 71-72
GenerateClientClass ==
    /\ pc = "classes"
    /\ res_i <= Len(swagger_spec)
    /\ LET out == GenerateResourceClass(SortedItems(swagger_spec)[res_i])
       IN  IF out.err # "none"
           THEN /\ error' = out.err
                /\ pc' = "failed"
                /\ UNCHANGED <<file_lines, res_i>>
           ELSE /\ file_lines' = file_lines \o out.lines
                /\ res_i' = res_i + 1
                /\ UNCHANGED <<error, pc>>
    /\ UNCHANGED <<service_name, swagger_spec, stdout, prev_stdout, reordered,
                   selVars, sigVars>>

\* line 74
GenerateClientPrint ==
    /\ pc = "classes"
    /\ res_i > Len(swagger_spec)
    /\ stdout' = Append(stdout, Join(file_lines, "\n") \o "\n")
    /\ pc' = "done"
    /\ UNCHANGED <<service_name, swagger_spec, file_lines, error, res_i, prev_stdout,
                   reordered, selVars, sigVars>>

Perms(n) == {f \in [1..n -> 1..n] : \A i, j \in 1..n : i # j => f[i] # f[j]}
Reordered(q) == {[i \in 1..Len(q) |-> q[f[i]]] : f \in Perms(Len(q))}

RECURSIVE OperationOrders(_)
OperationOrders(resources) ==
    IF resources = <<>> THEN {<<>>}
    ELSE {<<[Head(resources) EXCEPT !.operations = ops]>> \o rest :
             ops \in Reordered(Head(resources).operations),
             rest \in OperationOrders(Tail(resources))}

\* the same resources and operations in every iteration order of the mappings
IterationOrders(resources) ==
    UNION {Reordered(q) : q \in OperationOrders(resources)}

\* main(args) once more on the same document: the mappings may iterate in
\* another order
Main ==
    /\ pc \in {"done", "failed"}
    /\ \E q \in IterationOrders(swagger_spec) :
           /\ swagger_spec' = q
           /\ reordered' = (q # swagger_spec)
    /\ prev_stdout' = stdout
    /\ file_lines' = <<>>
    /\ stdout' = <<>>
    /\ error' = "none"
    /\ pc' = "header"
    /\ res_i' = 0
    /\ UNCHANGED <<service_name, selVars, sigVars>>

----------------------------------------------------------------------------
(* Specifications *)

SelectorIdle == responses_spec = <<>> /\ sel = NoSel /\ sel_pc = "idle"
SignatureIdle == op_params = <<>> /\ sig = NoSig /\ sig_pc = "idle"
GeneratorIdle ==
    /\ service_name = "" /\ swagger_spec = <<>> /\ file_lines = <<>>
    /\ stdout = <<>> /\ error = "none" /\ pc = "idle" /\ res_i = 0
    /\ prev_stdout = NoRun /\ reordered = FALSE

InitSelector ==
    /\ responses_spec \in ResponseMappings
    /\ sel = NoSel
    /\ sel_pc = "call"
    /\ SignatureIdle /\ GeneratorIdle

InitSignature ==
    /\ op_params \in ParamLists
    /\ sig = NoSig
    /\ sig_pc = "call"
    /\ SelectorIdle /\ GeneratorIdle

Init ==
    /\ service_name \in ServiceNames
    /\ swagger_spec \in ResourceMappings
    /\ file_lines = <<>>
    /\ stdout = <<>>
    /\ error = "none"
    /\ pc = "header"
    /\ res_i = 0
    /\ prev_stdout = NoRun
    /\ reordered = FALSE
    /\ SelectorIdle /\ SignatureIdle

Next ==
    \/ GenerateClientHeader
    \/ GenerateClientProperties
    \/ GenerateClientClass
    \/ GenerateClientPrint
    \/ Main

Spec == Init /\ [][Next]_vars
SpecSelector == InitSelector /\ [][SelectorCall]_vars
SpecSignature == InitSignature /\ [][SignatureCall]_vars

----------------------------------------------------------------------------
(* Claims about the Response Selector (SpecSelector) *)

\* the lexicographically smallest key of a non-empty mapping
SmallestKey(m) == CHOOSE k \in DOMAIN m : \A o \in DOMAIN m \ {k} : StrLess(k, o)

\* C2: whenever the mapping has the key "200", the selector returns the
\* definition stored under "200" as it is, calls deref on nothing and reads
\* no other key, whatever that definition is.
C2_Returns200Verbatim ==
    (sel_pc = "done" /\ "200" \in DOMAIN responses_spec) =>
        /\ sel.response_spec = responses_spec["200"]
        /\ sel.derefs = <<>>
        /\ sel.reads = <<"200">>

\* C3: without the key "200", the selector returns the dereferenced
\* definition of the smallest key when that key is below "300" (and does not
\* use "default" then), else the dereferenced "default" when there is one,
\* else None.
C3_StrictPriority ==
    (sel_pc = "done" /\ "200" \notin DOMAIN responses_spec) =>
        IF DOMAIN responses_spec # {} /\ StrLess(SmallestKey(responses_spec), "300")
        THEN /\ sel.response_spec = Deref(responses_spec[SmallestKey(responses_spec)])
             /\ sel.derefs = <<responses_spec[SmallestKey(responses_spec)]>>
        ELSE IF "default" \in DOMAIN responses_spec
        THEN sel.response_spec = Deref(responses_spec["default"])
        ELSE sel.response_spec = None

----------------------------------------------------------------------------
(* Claims about the Signature Builder (SpecSignature) *)

RequiredBare(param) == param.required /\ param.default = NoDefault
Defaulted(param) == ~RequiredBare(param)

\* the texts a default can be rendered as
RenderedDefaults == {"None", "5", "hello", "'5'", "'hello'"}
IsRendering(text, name) == \E d \in RenderedDefaults : text = name \o "=" \o d

\* the native literal of a default value
Literal(v) == IF v = IntVal(5) THEN "5" ELSE "hello"

InSignature(text) == \E j \in DOMAIN sig.params : sig.params[j] = text

\* C4: the rendered list is 'self', the required parameters without default
\* as bare names in collection order, the other parameters as name=default
\* in collection order, and '_request_options=None' last; each declared name
\* occurs exactly once.
C4_SignatureOrder ==
    (sig_pc = "done" /\ sig.err = "none") =>
        LET req == SelectSeq(op_params, RequiredBare)
            opt == SelectSeq(op_params, Defaulted)
        IN  /\ Len(sig.params) = Len(op_params) + 2
            /\ sig.params[1] = "self"
            /\ \A k \in 1..Len(req) : sig.params[1 + k] = req[k].name
            /\ \A k \in 1..Len(opt) :
                   IsRendering(sig.params[1 + Len(req) + k], opt[k].name)
            /\ sig.params[Len(sig.params)] = "_request_options=None"
            /\ \A i \in DOMAIN op_params :
                   Cardinality({j \in DOMAIN sig.params :
                       \/ sig.params[j] = op_params[i].name
                       \/ IsRendering(sig.params[j], op_params[i].name)}) = 1

\* a signature was built from an optional parameter declared before a
\* required one
C4_Witness ==
    /\ sig_pc = "done" /\ sig.err = "none"
    /\ Len(op_params) = 2
    /\ Defaulted(op_params[1]) /\ RequiredBare(op_params[2])
    /\ sig.params[2] = op_params[2].name

\* C7: a parameter with a default renders as name='default' when its type is
\* string and as name=default otherwise, also when it is required; a
\* parameter without default that is not required renders as name=None.
C7_DefaultRendering ==
    (sig_pc = "done" /\ sig.err = "none") =>
        \A i \in DOMAIN op_params :
            LET p == op_params[i] IN
            /\ (p.default # NoDefault /\ p.type = "string")
                   => InSignature(p.name \o "='" \o Literal(p.default) \o "'")
            /\ (p.default # NoDefault /\ p.type # "string")
                   => InSignature(p.name \o "=" \o Literal(p.default))
            /\ (p.default = NoDefault /\ ~p.required)
                   => InSignature(p.name \o "=None")
            /\ (p.default # NoDefault) => ~InSignature(p.name)

\* a signature holds a required string parameter with a default and an
\* optional parameter without one
C7_Witness ==
    /\ sig_pc = "done" /\ sig.err = "none"
    /\ \E i, j \in DOMAIN op_params :
           /\ op_params[i].required /\ op_params[i].type = "string"
           /\ op_params[i].default = StrVal("hello")
           /\ InSignature(op_params[i].name \o "='hello'")
           /\ ~op_params[j].required /\ op_params[j].default = NoDefault
           /\ InSignature(op_params[j].name \o "=None")

----------------------------------------------------------------------------
(* Claims about generate_client (Spec) *)

ResourceKeys == {swagger_spec[i].key : i \in DOMAIN swagger_spec}
ResourceNamed(n) == swagger_spec[CHOOSE i \in DOMAIN swagger_spec : swagger_spec[i].key = n]
OperationKeys(resource) ==
    {resource.operations[i].key : i \in DOMAIN resource.operations}
OperationNamed(resource, id) ==
    resource.operations[CHOOSE i \in DOMAIN resource.operations :
                            resource.operations[i].key = id]

\* the k-th name of a set of names in lexicographic order
KthSmallest(S, k) == CHOOSE x \in S : Cardinality({y \in S : StrLess(y, x)}) = k - 1

IsHeader(line) == line = ClientHeader(service_name)
ClassLines == {ResourceClassLine(n) : n \in ResourceNames}
WrapperLines == {HttpFutureLine(id) : id \in OperationIds}
IsClassLine(line) == line \in ClassLines
IsWrapperLine(line) == line \in WrapperLines

\* where a resource's handle type starts in file_lines, and the lines from
\* there up to the next handle type
ClassIndex(n) == CHOOSE i \in DOMAIN file_lines : file_lines[i] = ResourceClassLine(n)
SegmentEnd(n) ==
    LET later == {i \in DOMAIN file_lines : i > ClassIndex(n) /\ IsClassLine(file_lines[i])}
    IN  IF later = {} THEN Len(file_lines)
        ELSE (CHOOSE i \in later : \A j \in later : i <= j) - 1
Segment(n) == SubSeq(file_lines, ClassIndex(n) + 1, SegmentEnd(n))

\* the 'def' line of an operation's method
DefLine(operation) ==
    GenerateOperationSignature(operation.key, operation.params).op_lines[2]

\* the wrapper declarations of one resource, operations in lexicographic order
WrappersOf(resource) ==
    [k \in 1..Len(resource.operations) |->
        HttpFutureLine(KthSmallest(OperationKeys(resource), k))]

\* the wrapper declarations of the k-th and later resources in lexicographic
\* order of resource name
RECURSIVE WrappersFrom(_)
WrappersFrom(k) ==
    IF k > Len(swagger_spec) THEN <<>>
    ELSE WrappersOf(ResourceNamed(KthSmallest(ResourceKeys, k))) \o WrappersFrom(k + 1)

\* C1 as claimed: in the finished output no handle type follows a wrapper
\* declaration, and the wrappers come in resource order, then operation
\* order.
C1_WrappersAfterAllClasses ==
    pc = "done" =>
        /\ \A i, j \in DOMAIN file_lines :
               (IsWrapperLine(file_lines[i]) /\ IsClassLine(file_lines[j])) => j < i
        /\ SelectSeq(file_lines, IsWrapperLine) = WrappersFrom(1)

\* C1 as amended: the wrappers of a resource come after the methods of that
\* resource's handle type and before the next handle type, operations in
\* lexicographic order; over the whole output the wrappers come in resource
\* order, then operation order.
C1_WrappersFollowOwnClass ==
    pc = "done" =>
        /\ SelectSeq(file_lines, IsWrapperLine) = WrappersFrom(1)
        /\ \A n \in ResourceKeys :
               LET seg == Segment(n)
                   defLines == {DefLine(ResourceNamed(n).operations[k]) :
                                   k \in DOMAIN ResourceNamed(n).operations}
                   defs == {i \in DOMAIN seg : seg[i] \in defLines}
                   wrappers == {j \in DOMAIN seg : IsWrapperLine(seg[j])}
               IN  /\ SelectSeq(seg, IsWrapperLine) = WrappersOf(ResourceNamed(n))
                   /\ \A i \in defs : \A j \in wrappers : i < j

\* a finished output of two resources that both have an operation: the
\* second handle type follows the first one's wrapper
C1_Witness ==
    /\ pc = "done"
    /\ Len(swagger_spec) = 2
    /\ \A i \in DOMAIN swagger_spec : swagger_spec[i].operations # <<>>
    /\ \E i, j \in DOMAIN file_lines :
           i < j /\ IsWrapperLine(file_lines[i]) /\ IsClassLine(file_lines[j])

HasDuplicateDeclaration ==
    \E i \in DOMAIN swagger_spec : \E k \in DOMAIN swagger_spec[i].operations :
        LET declared == swagger_spec[i].operations[k].declared
        IN  \E a, b \in DOMAIN declared : a # b /\ declared[a].name = declared[b].name

\* C5: when an operation declares one parameter name twice, the run is
\* stopped by a SpecIntegrityError: it never finishes and writes nothing.
C5_DuplicateParameterRejected ==
    HasDuplicateDeclaration => (pc # "done" /\ stdout = <<>>)

\* C6: the finished output starts with the one preamble, then holds one
\* accessor per resource in lexicographic order, then the handle types in
\* lexicographic order, each with its methods in lexicographic order of
\* operation name.
C6_BlockOrder ==
    pc = "done" =>
        LET n == Len(swagger_spec) IN
        /\ IsHeader(file_lines[1])
        /\ \A i \in DOMAIN file_lines : IsHeader(file_lines[i]) => i = 1
        /\ \A k \in 1..n :
               file_lines[1 + k] = GenerateResourceProperty(KthSmallest(ResourceKeys, k))
        /\ SelectSeq(file_lines, IsClassLine)
               = [k \in 1..n |-> ResourceClassLine(KthSmallest(ResourceKeys, k))]
        /\ \A i \in DOMAIN file_lines : IsClassLine(file_lines[i]) => i > 1 + n
        /\ \A r \in ResourceKeys :
               LET resource == ResourceNamed(r)
                   defLines == {DefLine(resource.operations[k]) :
                                   k \in DOMAIN resource.operations}
                   IsDef(line) == line \in defLines
               IN  SelectSeq(Segment(r), IsDef)
                       = [k \in 1..Len(resource.operations) |->
                             DefLine(OperationNamed(resource,
                                 KthSmallest(OperationKeys(resource), k)))]

\* a finished output for resources "b" and "a" iterated in that order, "a"
\* with operations "get" and "add" iterated in that order
C6_Witness ==
    /\ pc = "done"
    /\ Len(swagger_spec) = 2
    /\ swagger_spec[1].key = "b" /\ swagger_spec[2].key = "a"
    /\ Len(swagger_spec[2].operations) = 2
    /\ swagger_spec[2].operations[1].key = "get"
    /\ file_lines[2] = GenerateResourceProperty("a")

\* C8: nothing is written before every block is built; a failed run has
\* written nothing and a finished run has written the whole artifact once.
C8_AllOrNothing ==
    /\ pc \in {"header", "properties", "classes", "failed"} => stdout = <<>>
    /\ pc = "failed" => error # "none"
    /\ pc = "done" =>
           /\ error = "none"
           /\ stdout = <<Join(file_lines, "\n") \o "\n">>
           /\ Len(SelectSeq(file_lines, IsClassLine)) = Len(swagger_spec)
           /\ Len(SelectSeq(file_lines, IsWrapperLine)) = CountOperations(swagger_spec)

\* a run that failed at a later resource, after the lines of an earlier
\* resource were built
C8_Witness ==
    /\ pc = "failed"
    /\ error = "KeyError"
    /\ \E i \in DOMAIN file_lines : IsWrapperLine(file_lines[i])
    /\ stdout = <<>>

\* C9: the finished output holds one wrapper declaration per operation of
\* the Spec, whether or not the selector finds a response for it.
C9_WrapperPerOperation ==
    pc = "done" =>
        /\ Cardinality({i \in DOMAIN file_lines : IsWrapperLine(file_lines[i])})
               = CountOperations(swagger_spec)
        /\ \A id \in OperationIds :
               Cardinality({i \in DOMAIN file_lines : file_lines[i] = HttpFutureLine(id)})
                   = Cardinality({r \in ResourceKeys : id \in OperationKeys(ResourceNamed(r))})

\* a finished output with one operation whose selection is absent and one
\* whose selection is found
C9_Witness ==
    /\ pc = "done"
    /\ \E r1, r2 \in ResourceKeys :
       \E i \in DOMAIN ResourceNamed(r1).operations :
       \E j \in DOMAIN ResourceNamed(r2).operations :
           /\ GetHappyPathResponseSpec(
                  ResourceNamed(r1).operations[i].responses).response_spec = None
           /\ GetHappyPathResponseSpec(
                  ResourceNamed(r2).operations[j].responses).response_spec = "A"
    /\ Cardinality({i \in DOMAIN file_lines : IsWrapperLine(file_lines[i])}) >= 2

\* C10: a run over the same Spec in another iteration order of its mappings
\* ends like the run before it, with the same bytes written.
C10_Deterministic ==
    (pc \in {"done", "failed"} /\ prev_stdout # NoRun) => stdout = prev_stdout

\* a second run finished after the mappings of two resources, one with two
\* operations, changed their iteration order
C10_Witness ==
    /\ pc = "done"
    /\ prev_stdout # NoRun
    /\ reordered
    /\ Len(swagger_spec) = 2
    /\ \E i \in DOMAIN swagger_spec : Len(swagger_spec[i].operations) = 2
    /\ stdout = prev_stdout

====
